---- MODULE Spec2Model ----
(***************************************************************************)
(* AMBER_AGENT: the index builder (build_index.py) and the command         *)
(* resolver with its result cache (amber_agent.py).                        *)
(*                                                                         *)
(* Strings are TLA+ strings; a character is a string of length one.        *)
(* Five specifications share the module:                                   *)
(*   SpecIndex  the line loop of parse_index_text                          *)
(*   SpecPages  the page loop of read_pages_text_from_manual               *)
(*   Spec       one process running make / clear_cache, run after run      *)
(*   SpecText   the same, over thresholds and character budgets            *)
(*   SpecConc   two such processes interleaved on the same cache directory *)
(***************************************************************************)
EXTENDS Integers, Sequences, FiniteSets, TLC

VARIABLES
    txt,        \* parse_index_text: txt.splitlines()
    pos,        \* parse_index_text: index of the line the loop is at
    mapping,    \* parse_index_text: key -> list of pages ({"pages": [...]})
    meta,       \* read_pages_text_from_manual: the index entry of the command
    sidecar,    \* read_pages_text_from_manual: a text sidecar of the command exists
    manual,     \* read_pages_text_from_manual: AMBER_Manual.pdf exists
    docLen,     \* read_pages_text_from_manual: len(book)
    page_numbers, \* read_pages_text_from_manual: the pages still to visit
    chunks,     \* read_pages_text_from_manual: the pages fetched, in fetch order
    rpc,        \* read_pages_text_from_manual: where the call is
    cacheDir,   \* the directory CACHE exists
    cache,      \* the files of CACHE: storage location -> content
    proc,       \* per process: the command run, its arguments, locals and position
    stored,     \* history: the (cmd, query, model, text) written since the last clear
    runs        \* number of commands invoked so far

idxVars == <<txt, pos, mapping>>
pgVars == <<meta, sidecar, manual, docLen, page_numbers, chunks, rpc>>
runVars == <<cacheDir, cache, proc, stored, runs>>
vars == <<txt, pos, mapping, meta, sidecar, manual, docLen, page_numbers, chunks, rpc,
          cacheDir, cache, proc, stored, runs>>

(***************************************************************************)
(* Python string primitives                                                *)
(***************************************************************************)
Char(s, i) == SubSeq(s, i, i)

Range(f) == {f[i] : i \in DOMAIN f}

SetMin(S) == CHOOSE x \in S : \A y \in S : x <= y

SetMax(S) == CHOOSE x \in S : \A y \in S : y <= x

Whitespace == {" ", "\t"}

Digits == {"0", "1", "2", "3", "4", "5", "6", "7", "8", "9"}

UpperAlpha == "ABCDEFGHIJKLMNOPQRSTUVWXYZ"

LowerAlpha == "abcdefghijklmnopqrstuvwxyz"

Letters == {Char(UpperAlpha, i) : i \in 1..26} \cup {Char(LowerAlpha, i) : i \in 1..26}

\* str.lower() on one character
LowerChar(c) ==
    IF \E i \in 1..26 : Char(UpperAlpha, i) = c
    THEN Char(LowerAlpha, CHOOSE i \in 1..26 : Char(UpperAlpha, i) = c)
    ELSE c

RECURSIVE Lower(_)
\* str.lower()
Lower(s) ==
    IF s = "" THEN "" ELSE LowerChar(Char(s, 1)) \o Lower(SubSeq(s, 2, Len(s)))

\* str.strip()
Strip(s) ==
    LET keep == {i \in 1..Len(s) : Char(s, i) \notin Whitespace}
    IN  IF keep = {} THEN "" ELSE SubSeq(s, SetMin(keep), SetMax(keep))

\* str.startswith(prefix)
StartsWith(s, prefix) ==
    Len(s) >= Len(prefix) /\ SubSeq(s, 1, Len(prefix)) = prefix

\* sep in s, for a one-character sep
Contains(s, sep) == \E i \in 1..Len(s) : Char(s, i) = sep

RECURSIVE Split(_, _)
\* str.split(sep), for a one-character sep
Split(s, sep) ==
    IF ~Contains(s, sep) THEN <<s>>
    ELSE LET i == SetMin({j \in 1..Len(s) : Char(s, j) = sep})
         IN  <<SubSeq(s, 1, i - 1)>> \o Split(SubSeq(s, i + 1, Len(s)), sep)

\* str.isdigit(), on the ASCII digits
IsDigit(s) == s # "" /\ \A i \in 1..Len(s) : Char(s, i) \in Digits

DigitVal(c) == CHOOSE d \in 0..9 : Char("0123456789", d + 1) = c

RECURSIVE ToInt(_)
\* int(s) for a string of ASCII digits
ToInt(s) ==
    IF s = "" THEN 0
    ELSE 10 * ToInt(SubSeq(s, 1, Len(s) - 1)) + DigitVal(Char(s, Len(s)))

\* list(range(a, b + 1))
RangeList(a, b) == [i \in 1..(IF b >= a THEN b - a + 1 ELSE 0) |-> a + i - 1]

\* the lists that list(set(S)) can be: the elements of S once each, in any order
Orderings(S) ==
    {s \in [1..Cardinality(S) -> S] : \A i, j \in 1..Cardinality(S) : i # j => s[i] # s[j]}

(***************************************************************************)
(* build_index.py: PATTERNS[1] and PATTERNS[2]                             *)
(***************************************************************************)
\* the character class [A-Za-z0-9_:+\-/\.]
CmdChars == Letters \cup Digits \cup {"_", ":", "+", "-", "/", "."}

\* the class [-–]; the en dash has no spelling here, the hyphen stands for both
Dashes == {"-"}

\* end of the longest run of characters of class cls that starts at i
RunEnd(s, i, cls) ==
    LET stop == {j \in i..Len(s) : Char(s, j) \notin cls}
    IN  IF stop = {} THEN Len(s) + 1 ELSE SetMin(stop)

NoMatch == [ok |-> FALSE, cmd |-> "", start |-> "", end |-> ""]

\* (\d+)(?:\s*[-–]\s*(\d+))?  matched at i; end = "" when group 3 is unset
PageRange(s, cmd, i) ==
    LET d1 == RunEnd(s, i, Digits)
        w1 == RunEnd(s, d1, Whitespace)
        w2 == RunEnd(s, w1 + 1, Whitespace)
        d2 == RunEnd(s, w2, Digits)
    IN  IF d1 = i THEN NoMatch
        ELSE IF w1 <= Len(s) /\ Char(s, w1) \in Dashes /\ d2 > w2
             THEN [ok |-> TRUE, cmd |-> cmd, start |-> SubSeq(s, i, d1 - 1),
                   end |-> SubSeq(s, w2, d2 - 1)]
             ELSE [ok |-> TRUE, cmd |-> cmd, start |-> SubSeq(s, i, d1 - 1), end |-> ""]

\* PATTERNS[1].match(s): command, whitespace, three or more dots, whitespace, range
DotLeader(s) ==
    LET s0 == RunEnd(s, 1, Whitespace)
        c1 == RunEnd(s, s0, CmdChars)
        w1 == RunEnd(s, c1, Whitespace)
        p1 == RunEnd(s, w1, {"."})
        w2 == RunEnd(s, p1, Whitespace)
    IN  IF c1 > s0 /\ w1 > c1 /\ p1 - w1 >= 3 /\ w2 > p1
        THEN PageRange(s, SubSeq(s, s0, c1 - 1), w2)
        ELSE NoMatch

\* g is in the language of \s+[, ]*\s*
IsGap(g) ==
    \E a \in 1..Len(g) : \E b \in a..Len(g) :
        /\ \A i \in 1..a : Char(g, i) \in Whitespace
        /\ \A i \in (a + 1)..b : Char(g, i) \in {",", " "}
        /\ \A i \in (b + 1)..Len(g) : Char(g, i) \in Whitespace

\* PATTERNS[2].match(s): command, gap, p or P, optional dot, whitespace, range
PForm(s) ==
    LET s0 == RunEnd(s, 1, Whitespace)
        c1 == RunEnd(s, s0, CmdChars)
        g1 == RunEnd(s, c1, Whitespace \cup {","})
        q1 == IF g1 + 1 <= Len(s) /\ Char(s, g1 + 1) = "." THEN g1 + 2 ELSE g1 + 1
        w1 == RunEnd(s, q1, Whitespace)
    IN  IF c1 > s0 /\ IsGap(SubSeq(s, c1, g1 - 1))
           /\ g1 <= Len(s) /\ Char(s, g1) \in {"p", "P"}
        THEN PageRange(s, SubSeq(s, s0, c1 - 1), w1)
        ELSE NoMatch

\* for pat in PATTERNS[1:]: m = pat.match(line); if m: break
FirstMatch(line) == IF DotLeader(line).ok THEN DotLeader(line) ELSE PForm(line)

(***************************************************************************)
(* build_index.py: parse_index_text                                        *)
(***************************************************************************)
EmptyMapping == [k \in {} |-> <<>>]

\* line.lower().startswith(("see ", "seealso", "…", "index")); the ellipsis
\* character has no spelling here and no modelled line starts with it
IsNoise(line) ==
    \/ line = ""
    \/ StartsWith(Lower(line), "see ")
    \/ StartsWith(Lower(line), "seealso")
    \/ StartsWith(Lower(line), "index")

\* parts = [p.strip() for p in line.split(',')]
CommaParts(line) == [i \in 1..Len(Split(line, ",")) |-> Strip(Split(line, ",")[i])]

\* pages = [int(p) for p in parts[1:] if p.isdigit()]
CommaPages(line) ==
    LET parts == CommaParts(line)
        digit == SelectSeq(SubSeq(parts, 2, Len(parts)), IsDigit)
    IN  [i \in 1..Len(digit) |-> ToInt(digit[i])]

\* the comma branch stores a record: ',' in line, len(parts) >= 2, pages and cmd
CommaStores(line) ==
    /\ Contains(line, ",")
    /\ Len(CommaParts(line)) >= 2
    /\ CommaPages(line) # <<>>
    /\ CommaParts(line)[1] # ""

\* pages = list(range(start_page, end_page + 1)) of the matched line
RangePages(m) ==
    RangeList(ToInt(m.start), IF m.end # "" THEN ToInt(m.end) ELSE ToInt(m.start))

\* a merge that keeps only the latest record of a key
MergeEntryKeepLast(m, key, pages, combined) ==
    [k \in DOMAIN m \cup {key} |-> IF k = key THEN pages ELSE m[k]]

\* the block "if key in mapping: ... else: mapping[key] = rng", with
\* combined one of the lists list(set(existing_pages + pages)) can be
MergeEntry(m, key, pages, combined) ==
    IF key \in DOMAIN m
    THEN [k \in DOMAIN m |-> IF k = key THEN combined ELSE m[k]]
    ELSE [k \in DOMAIN m \cup {key} |-> IF k = key THEN pages ELSE m[k]]

\* existing_pages + pages, as a set
Combined(m, key, pages) ==
    (IF key \in DOMAIN m THEN Range(m[key]) ELSE {}) \cup Range(pages)

\* one pass of the loop body over a raw line, lines 22-62: the branch taken,
\* and the key and the page list of the record it stores
ParseLine(raw) ==
    LET line == Strip(raw)
    IN  IF IsNoise(line)
        THEN [branch |-> "noise", key |-> "", pages |-> <<>>]
        ELSE IF CommaStores(line)
        THEN [branch |-> "comma", key |-> Lower(CommaParts(line)[1]),
              pages |-> CommaPages(line)]
        ELSE IF FirstMatch(line).ok
        THEN [branch |-> "range", key |-> Lower(FirstMatch(line).cmd),
              pages |-> RangePages(FirstMatch(line))]
        ELSE [branch |-> "unmatched", key |-> "", pages |-> <<>>]

\* number of lines of an index text
MaxLines == 3

\* the raw index lines the texts are made of
IndexLines ==
    { "rms, 5",
      "RMS, 5, 6",
      " Rms ... 5-6 ",
      "rms .... 9-5",
      "rms p. 7",
      "rmsf , P.7 - 8",
      "rmsf, x, 7, 7",
      "see rms, 9",
      "rms 5" }

\* ParseLine over the modelled lines, computed once
Parsed == [raw \in IndexLines |-> ParseLine(raw)]

InLoop == pos <= Len(txt)

\* if not line or line.lower().startswith(...): continue
ParseNoise ==
    /\ InLoop
    /\ Parsed[txt[pos]].branch = "noise"
    /\ pos' = pos + 1
    /\ UNCHANGED <<txt, mapping>>
    /\ UNCHANGED pgVars
    /\ UNCHANGED runVars

\* the comma-separated branch, lines 27-47
ParseComma ==
    /\ InLoop
    /\ Parsed[txt[pos]].branch = "comma"
    /\ LET key   == Parsed[txt[pos]].key
           pages == Parsed[txt[pos]].pages
       IN  \E combined \in Orderings(Combined(mapping, key, pages)) :
               mapping' = MergeEntry(mapping, key, pages, combined)
    /\ pos' = pos + 1
    /\ UNCHANGED txt
    /\ UNCHANGED pgVars
    /\ UNCHANGED runVars

\* the fallback patterns match nothing: if not m: continue
ParseUnmatched ==
    /\ InLoop
    /\ Parsed[txt[pos]].branch = "unmatched"
    /\ pos' = pos + 1
    /\ UNCHANGED <<txt, mapping>>
    /\ UNCHANGED pgVars
    /\ UNCHANGED runVars

\* the fallback branch, lines 57-69
ParseRange ==
    /\ InLoop
    /\ Parsed[txt[pos]].branch = "range"
    /\ LET key   == Parsed[txt[pos]].key
           pages == Parsed[txt[pos]].pages
       IN  \E combined \in Orderings(Combined(mapping, key, pages)) :
               mapping' = MergeEntry(mapping, key, pages, combined)
    /\ pos' = pos + 1
    /\ UNCHANGED txt
    /\ UNCHANGED pgVars
    /\ UNCHANGED runVars

IndexTexts == UNION {[1..n -> IndexLines] : n \in 0..MaxLines}

(***************************************************************************)
(* amber_agent.py: read_pages_text_from_manual                             *)
(* A page of the manual is named by its zero-based number; the text        *)
(* book[p].get_text() is looked up from that number where a text is needed.*)
(***************************************************************************)
RECURSIVE SortedList(_)
\* sorted(S) of a finite set of integers
SortedList(S) ==
    IF S = {} THEN <<>> ELSE <<SetMin(S)>> \o SortedList(S \ {SetMin(S)})

\* actual_pages: [page + 1, page + 2] for every indexed page, in list order
ActualPages(pages) ==
    [i \in 1..(2 * Len(pages)) |->
        IF i % 2 = 1 THEN pages[(i + 1) \div 2] + 1 ELSE pages[i \div 2] + 2]

\* actual_pages kept in list order, duplicates and all, then made zero-based
PageNumbersUnsorted(m) ==
    IF "pages" \in DOMAIN m
    THEN [i \in 1..Len(ActualPages(m.pages)) |-> ActualPages(m.pages)[i] - 1]
    ELSE RangeList(m.start - 1, m.end - 1)

\* sorted(set(actual_pages)) left one-based
PageNumbersOneBased(m) ==
    IF "pages" \in DOMAIN m
    THEN SortedList(Range(ActualPages(m.pages)))
    ELSE RangeList(m.start - 1, m.end - 1)

\* page_numbers, lines 58-68: [p - 1 for p in sorted(set(actual_pages))], or
\* list(range(start - 1, end)) for the old start/end format
PageNumbers(m) ==
    IF "pages" \in DOMAIN m
    THEN LET srt == SortedList(Range(ActualPages(m.pages)))
         IN  [i \in 1..Len(srt) |-> srt[i] - 1]
    ELSE RangeList(m.start - 1, m.end - 1)

\* 0 <= p < len(book)
InBook(p, n) == 0 <= p /\ p < n

\* the pages whose text the loop of lines 77-79 collects
FetchedPages(m, n) == SelectSeq(PageNumbers(m), LAMBDA p : InBook(p, n))

\* if txt_path.exists(): return txt_path.read_text()
ReadSidecar ==
    /\ rpc = "start"
    /\ sidecar
    /\ rpc' = "sidecar"
    /\ UNCHANGED <<meta, sidecar, manual, docLen, page_numbers, chunks>>
    /\ UNCHANGED idxVars
    /\ UNCHANGED runVars

\* lines 58-68
ResolvePages ==
    /\ rpc = "start"
    /\ ~sidecar
    /\ page_numbers' = PageNumbers(meta)
    /\ rpc' = "resolved"
    /\ UNCHANGED <<meta, sidecar, manual, docLen, chunks>>
    /\ UNCHANGED idxVars
    /\ UNCHANGED runVars

\* if not manual_file.exists(): raise typer.Exit(1)
ManualMissing ==
    /\ rpc = "resolved"
    /\ ~manual
    /\ rpc' = "exit1"
    /\ UNCHANGED <<meta, sidecar, manual, docLen, page_numbers, chunks>>
    /\ UNCHANGED idxVars
    /\ UNCHANGED runVars

\* with fitz.open(manual_file) as book: chunks = []
OpenManual ==
    /\ rpc = "resolved"
    /\ manual
    /\ chunks' = <<>>
    /\ rpc' = "loop"
    /\ UNCHANGED <<meta, sidecar, manual, docLen, page_numbers>>
    /\ UNCHANGED idxVars
    /\ UNCHANGED runVars

\* for p in page_numbers: if 0 <= p < len(book): chunks.append(...)
FetchPage ==
    /\ rpc = "loop"
    /\ page_numbers # <<>>
    /\ InBook(Head(page_numbers), docLen)
    /\ chunks' = Append(chunks, Head(page_numbers))
    /\ page_numbers' = Tail(page_numbers)
    /\ UNCHANGED <<meta, sidecar, manual, docLen, rpc>>
    /\ UNCHANGED idxVars
    /\ UNCHANGED runVars

\* for p in page_numbers: the bounds test fails, nothing is appended
SkipPage ==
    /\ rpc = "loop"
    /\ page_numbers # <<>>
    /\ ~InBook(Head(page_numbers), docLen)
    /\ page_numbers' = Tail(page_numbers)
    /\ UNCHANGED <<meta, sidecar, manual, docLen, chunks, rpc>>
    /\ UNCHANGED idxVars
    /\ UNCHANGED runVars

\* return "\n".join(chunks)
ReturnChunks ==
    /\ rpc = "loop"
    /\ page_numbers = <<>>
    /\ rpc' = "done"
    /\ UNCHANGED <<meta, sidecar, manual, docLen, page_numbers, chunks>>
    /\ UNCHANGED idxVars
    /\ UNCHANGED runVars

\* number of indexed pages of an entry
MaxPages == 2

\* largest document length
MaxDocLen == 13

\* the indexed page numbers the entries are made of
PageVals == {-2, -1, 0, 3, 10, 11}

\* index entries: the "pages" format and the old start/end format
Metas ==
    {[pages |-> ps] : ps \in UNION {[1..n -> PageVals] : n \in 0..MaxPages}}
    \cup {[start |-> a, end |-> b] : a \in {0, 3, 12}, b \in {2, 4, 14}}

(***************************************************************************)
(* amber_agent.py: make and clear_cache                                    *)
(* A process runs one command: the module body (line 12), then make or     *)
(* clear_cache.  What the file system, the environment, the fuzzy scorer   *)
(* and the transformer answer is chosen at the step that asks.             *)
(***************************************************************************)
Procs == {1, 2}

EmptyCache == [k \in {} |-> ""]

\* cache_key, lines 90-92: CACHE / sha1(f"{cmd}|{query}|{model}") + ".md"; the
\* hash is taken as injective, so the location is named by the hashed string
cache_key(cmd, query, model) == cmd \o "|" \o query \o "|" \o model

\* min_score: int = typer.Option(70)
DefaultMinScore == 70

\* max_chars: int = typer.Option(12000)
DefaultMaxChars == 12000

\* the marker of line 131
Marker == "\n[...truncated for token limits ...]"

\* Python's s[:n]
SliceTo(s, n) ==
    IF n >= 0 THEN SubSeq(s, 1, IF n < Len(s) THEN n ELSE Len(s))
    ELSE IF Len(s) + n > 0 THEN SubSeq(s, 1, Len(s) + n) ELSE ""

\* a truncation that never appends the marker
TruncateNoMarker(content, max_chars) ==
    IF Len(content) > max_chars THEN SliceTo(content, max_chars) ELSE content

\* lines 130-131
Truncate(content, max_chars) ==
    IF Len(content) > max_chars THEN SliceTo(content, max_chars) \o Marker ELSE content

\* pages of the manual
ManualLen == 3

\* book[p].get_text(): page p holds one letter
PageText(p) == Char(LowerAlpha, p + 1)

RECURSIVE JoinLines(_)
\* "\n".join(chunks)
JoinLines(ch) ==
    IF ch = <<>> THEN ""
    ELSE IF Len(ch) = 1 THEN ch[1]
    ELSE ch[1] \o "\n" \o JoinLines(Tail(ch))

\* the text of a sidecar file docs/<cmd>.txt
SidecarText(cmd) == "text of " \o cmd

\* read_pages_text_from_manual when it returns: the sidecar, or the pages joined
ReadPagesText(cmd, m, hasSidecar) ==
    IF hasSidecar THEN SidecarText(cmd)
    ELSE LET fetched == FetchedPages(m, ManualLen)
         IN  JoinLines([i \in 1..Len(fetched) |-> PageText(fetched[i])])

\* docs/index.json as load_index finds it: missing, empty, or two commands
SampleIndex ==
    [k \in {"rms", "rmsf"} |->
        IF k = "rms" THEN [pages |-> <<0>>] ELSE [pages |-> <<0, 2>>]]

NoIndexFile == [exists |-> FALSE, idx |-> EmptyMapping]

IndexFiles ==
    {NoIndexFile, [exists |-> TRUE, idx |-> EmptyMapping], [exists |-> TRUE, idx |-> SampleIndex]}

\* scores WRatio gives (0..100); the match of an empty key set is (None, 0).
\* None is written "": "not cmd" holds of both
Scores == {DefaultMinScore - 1, DefaultMinScore}

\* best_match, lines 21-23: the pairs extractOne may answer
best_match(query, choices) ==
    IF choices = {} THEN {<<"", 0>>} ELSE choices \X Scores

\* a gate that compares with <= : rejects a score equal to min_score
GateRejectsStrict(cmd, score, min_score) == cmd = "" \/ score <= min_score

\* if not cmd or score < min_score
GateRejects(cmd, score, min_score) == cmd = "" \/ score < min_score

Terminal == {"done", "exit1", "exit2", "crashed"}

IdleProc ==
    [pc |-> "idle", command |-> "", query |-> "", model |-> "",
     min_score |-> DefaultMinScore, max_chars |-> DefaultMaxChars, use_cache |-> TRUE,
     index |-> NoIndexFile, cmd |-> "", score |-> 0, content |-> "", text |-> "",
     result |-> "", out |-> "", trace |-> <<>>, fd |-> "closed", removed |-> {}]

\* the storage location of the run of p
KeyOf(p) == cache_key(proc[p].cmd, proc[p].query, proc[p].model)

\* number of commands invoked
MaxRuns == 3

\* a command line: the module body runs (CACHE.mkdir(exist_ok=True), line 12),
\* then typer binds the arguments a
Invoke(p, a) ==
    /\ proc[p].pc \in Terminal \cup {"idle"}
    /\ runs < MaxRuns
    /\ runs' = runs + 1
    /\ cacheDir' = TRUE
    /\ proc' = [proc EXCEPT ![p] =
           [IdleProc EXCEPT !.pc = a.command, !.command = a.command, !.query = a.query,
                            !.model = a.model, !.min_score = a.min_score,
                            !.max_chars = a.max_chars, !.use_cache = a.use_cache]]
    /\ UNCHANGED <<cache, stored>>
    /\ UNCHANGED <<idxVars, pgVars>>

\* lines 114-119: load_index, best_match, the gate
MakeMatch(p) ==
    /\ proc[p].pc = "make"
    /\ \E f \in IndexFiles :
         IF ~f.exists
         THEN proc' = [proc EXCEPT ![p].pc = "exit1"]
         ELSE \E m \in best_match(proc[p].query, DOMAIN f.idx) :
                proc' = [proc EXCEPT
                    ![p].index = f, ![p].cmd = m[1], ![p].score = m[2],
                    ![p].pc = IF GateRejects(m[1], m[2], proc[p].min_score) THEN "exit2"
                              ELSE IF proc[p].use_cache THEN "lookup" ELSE "read"]
    /\ UNCHANGED <<cacheDir, cache, stored, runs>>
    /\ UNCHANGED <<idxVars, pgVars>>

\* a lookup that never finds the entry
LookupAlwaysMisses(p) ==
    /\ proc[p].pc = "lookup"
    /\ proc' = [proc EXCEPT ![p].trace = Append(@, "exists"), ![p].pc = "read"]
    /\ UNCHANGED <<cacheDir, cache, stored, runs>>
    /\ UNCHANGED <<idxVars, pgVars>>

\* lines 123-124: out_path = cache_key(...); if out_path.exists()
MakeLookup(p) ==
    /\ proc[p].pc = "lookup"
    /\ proc' = [proc EXCEPT ![p].trace = Append(@, "exists"),
                            ![p].pc = IF KeyOf(p) \in DOMAIN cache THEN "hit" ELSE "read"]
    /\ UNCHANGED <<cacheDir, cache, stored, runs>>
    /\ UNCHANGED <<idxVars, pgVars>>

\* lines 125-126: print(out_path.read_text()); return.  The file may be gone
\* since exists(): read_text then raises FileNotFoundError
MakeReadCached(p) ==
    /\ proc[p].pc = "hit"
    /\ proc' = IF KeyOf(p) \in DOMAIN cache
               THEN [proc EXCEPT ![p].trace = Append(@, "read_text"),
                                 ![p].out = cache[KeyOf(p)], ![p].pc = "done"]
               ELSE [proc EXCEPT ![p].trace = Append(@, "read_text"), ![p].pc = "crashed"]
    /\ UNCHANGED <<cacheDir, cache, stored, runs>>
    /\ UNCHANGED <<idxVars, pgVars>>

\* lines 128-129: text = read_pages_text_from_manual(cmd, index[cmd]); without
\* a sidecar a missing manual ends the run with exit code 1
MakeReadPages(p) ==
    /\ proc[p].pc = "read"
    /\ \E hasSidecar, hasManual \in BOOLEAN :
         proc' = IF ~hasSidecar /\ ~hasManual
                 THEN [proc EXCEPT ![p].trace = Append(@, "read_pages"), ![p].pc = "exit1"]
                 ELSE [proc EXCEPT
                         ![p].trace = Append(@, "read_pages"),
                         ![p].content = ReadPagesText(proc[p].cmd,
                                            proc[p].index.idx[proc[p].cmd], hasSidecar),
                         ![p].pc = "truncate"]
    /\ UNCHANGED <<cacheDir, cache, stored, runs>>
    /\ UNCHANGED <<idxVars, pgVars>>

\* lines 130-138: the truncation; text goes into user_prompt
MakeTruncate(p) ==
    /\ proc[p].pc = "truncate"
    /\ proc' = [proc EXCEPT ![p].text = Truncate(proc[p].content, proc[p].max_chars),
                            ![p].pc = "client"]
    /\ UNCHANGED <<cacheDir, cache, stored, runs>>
    /\ UNCHANGED <<idxVars, pgVars>>

\* line 140, llm_client(): without OPENAI_API_KEY the run ends with exit code 1
MakeClient(p) ==
    /\ proc[p].pc = "client"
    /\ \E hasKey \in BOOLEAN :
         proc' = [proc EXCEPT ![p].trace = Append(@, "llm_client"),
                              ![p].pc = IF hasKey THEN "call" ELSE "exit1"]
    /\ UNCHANGED <<cacheDir, cache, stored, runs>>
    /\ UNCHANGED <<idxVars, pgVars>>

\* lines 141-150: the transformer answers r
MakeTransform(p, r) ==
    /\ proc[p].pc = "call"
    /\ proc' = [proc EXCEPT ![p].trace = Append(@, "transform"), ![p].result = r,
                            ![p].pc = IF proc[p].use_cache THEN "write" ELSE "print"]
    /\ UNCHANGED <<cacheDir, cache, stored, runs>>
    /\ UNCHANGED <<idxVars, pgVars>>

\* lines 154-155, write_text, first half: open(out_path, "w") creates the file
\* or truncates it; without the directory it raises FileNotFoundError
MakeWriteOpen(p) ==
    /\ proc[p].pc = "write"
    /\ IF cacheDir
       THEN /\ cache' = [k \in DOMAIN cache \cup {KeyOf(p)} |->
                            IF k = KeyOf(p) THEN "" ELSE cache[k]]
            /\ proc' = [proc EXCEPT ![p].trace = Append(@, "write"), ![p].fd = "open",
                                    ![p].pc = "flush"]
       ELSE /\ cache' = cache
            /\ proc' = [proc EXCEPT ![p].trace = Append(@, "write"), ![p].pc = "crashed"]
    /\ UNCHANGED <<cacheDir, stored, runs>>
    /\ UNCHANGED <<idxVars, pgVars>>

\* the bytes of new written at offset 0 over old
Overlay(old, new) ==
    IF Len(new) >= Len(old) THEN new ELSE new \o SubSeq(old, Len(new) + 1, Len(old))

\* write_text, second half: the text is written at offset 0 and the file is
\* closed; a file unlinked meanwhile takes the bytes with it
MakeWriteFlush(p) ==
    /\ proc[p].pc = "flush"
    /\ IF proc[p].fd = "open"
       THEN /\ cache' = [cache EXCEPT ![KeyOf(p)] = Overlay(@, proc[p].result)]
            /\ stored' = stored \cup
                   {<<proc[p].cmd, proc[p].query, proc[p].model, proc[p].result>>}
       ELSE UNCHANGED <<cache, stored>>
    /\ proc' = [proc EXCEPT ![p].fd = "closed", ![p].pc = "print"]
    /\ UNCHANGED <<cacheDir, runs>>
    /\ UNCHANGED <<idxVars, pgVars>>

\* line 157: print(result)
MakePrint(p) ==
    /\ proc[p].pc = "print"
    /\ proc' = [proc EXCEPT ![p].trace = Append(@, "print"), ![p].out = proc[p].result,
                            ![p].pc = "done"]
    /\ UNCHANGED <<cacheDir, cache, stored, runs>>
    /\ UNCHANGED <<idxVars, pgVars>>

\* line 163: if CACHE.exists(); else line 168
ClearCheck(p) ==
    /\ proc[p].pc = "clear_cache"
    /\ proc' = IF cacheDir
               THEN [proc EXCEPT ![p].pc = "rmtree"]
               ELSE [proc EXCEPT ![p].out = "Cache directory doesn't exist",
                                 ![p].pc = "done"]
    /\ UNCHANGED <<cacheDir, cache, stored, runs>>
    /\ UNCHANGED <<idxVars, pgVars>>

\* an rmtree that removes nothing
ClearRmtreeKeepsFiles(p) ==
    /\ proc[p].pc = "rmtree"
    /\ proc' = [proc EXCEPT ![p].pc = "mkdir", ![p].removed = DOMAIN cache]
    /\ cacheDir' = FALSE
    /\ UNCHANGED <<cache, stored, runs>>
    /\ UNCHANGED <<idxVars, pgVars>>

\* line 164: shutil.rmtree(CACHE); files held open by writers are unlinked.
\* A directory removed meanwhile makes it raise
ClearRmtree(p) ==
    /\ proc[p].pc = "rmtree"
    /\ IF cacheDir
       THEN /\ cache' = EmptyCache
            /\ stored' = {}
            /\ cacheDir' = FALSE
            /\ proc' = [q \in Procs |->
                   IF q = p THEN [proc[q] EXCEPT !.pc = "mkdir", !.removed = DOMAIN cache]
                   ELSE IF proc[q].fd = "open" THEN [proc[q] EXCEPT !.fd = "unlinked"]
                   ELSE proc[q]]
       ELSE /\ proc' = [proc EXCEPT ![p].pc = "crashed"]
            /\ UNCHANGED <<cache, stored, cacheDir>>
    /\ UNCHANGED runs
    /\ UNCHANGED <<idxVars, pgVars>>

\* lines 165-166: CACHE.mkdir() raises FileExistsError when the directory is back
ClearMkdir(p) ==
    /\ proc[p].pc = "mkdir"
    /\ IF ~cacheDir
       THEN /\ cacheDir' = TRUE
            /\ proc' = [proc EXCEPT ![p].out = "Cache cleared", ![p].pc = "done"]
       ELSE /\ cacheDir' = cacheDir
            /\ proc' = [proc EXCEPT ![p].pc = "crashed"]
    /\ UNCHANGED <<cache, stored, runs>>
    /\ UNCHANGED <<idxVars, pgVars>>

(***************************************************************************)
(* Specifications                                                          *)
(***************************************************************************)
\* no command has run: the cache directory is not there yet
RunIdle ==
    /\ cacheDir = FALSE
    /\ cache = EmptyCache
    /\ proc = [p \in Procs |-> IdleProc]
    /\ stored = {}
    /\ runs = 0

\* no call of read_pages_text_from_manual is in progress
PagesIdle ==
    /\ meta = [pages |-> <<>>]
    /\ sidecar = FALSE
    /\ manual = FALSE
    /\ docLen = 0
    /\ page_numbers = <<>>
    /\ chunks = <<>>
    /\ rpc = "idle"

InitIndex ==
    /\ txt \in IndexTexts
    /\ pos = 1
    /\ mapping = EmptyMapping
    /\ PagesIdle
    /\ RunIdle

NextIndex ==
    \/ ParseNoise
    \/ ParseComma
    \/ ParseUnmatched
    \/ ParseRange

SpecIndex == InitIndex /\ [][NextIndex]_vars
\* the index is not being parsed
IndexIdle ==
    /\ txt = <<>>
    /\ pos = 1
    /\ mapping = EmptyMapping

InitPages ==
    /\ meta \in Metas
    /\ sidecar \in BOOLEAN
    /\ manual \in BOOLEAN
    /\ docLen \in 0..MaxDocLen
    /\ page_numbers = <<>>
    /\ chunks = <<>>
    /\ rpc = "start"
    /\ IndexIdle
    /\ RunIdle

NextPages ==
    \/ ReadSidecar
    \/ ResolvePages
    \/ ManualMissing
    \/ OpenManual
    \/ FetchPage
    \/ SkipPage
    \/ ReturnChunks

SpecPages == InitPages /\ [][NextPages]_vars

\* the command lines of the sequential runs
MakeArgs(queries, models, minScores, maxChars, useCache) ==
    [command : {"make"}, query : queries, model : models, min_score : minScores,
     max_chars : maxChars, use_cache : useCache]

ClearArgs ==
    [command |-> "clear_cache", query |-> "", model |-> "",
     min_score |-> DefaultMinScore, max_chars |-> DefaultMaxChars, use_cache |-> TRUE]

\* command lines that differ in query and model, two of them hashing the same string
CacheArgs ==
    MakeArgs({"q", "q|x"}, {"m", "x|m"}, {DefaultMinScore}, {DefaultMaxChars}, BOOLEAN)
    \cup {ClearArgs}

\* command lines that differ in the threshold and in the character budget
TextArgs ==
    MakeArgs({"q"}, {"m"}, {0, DefaultMinScore}, {-1, 0, 2, 3, DefaultMaxChars}, BOOLEAN)
    \cup {ClearArgs}

\* the command lines of two concurrent processes: one cache entry
ConcArgs ==
    MakeArgs({"q"}, {"m"}, {0}, {DefaultMaxChars}, {TRUE}) \cup {ClearArgs}

\* the texts the transformer returns
Results == {"AAA", "B"}

\* the steps of process p after its invocation
Step(p) ==
    \/ MakeMatch(p)
    \/ MakeLookup(p)
    \/ MakeReadCached(p)
    \/ MakeReadPages(p)
    \/ MakeTruncate(p)
    \/ MakeClient(p)
    \/ \E r \in Results : MakeTransform(p, r)
    \/ MakeWriteOpen(p)
    \/ MakeWriteFlush(p)
    \/ MakePrint(p)
    \/ ClearCheck(p)
    \/ ClearRmtree(p)
    \/ ClearMkdir(p)

InitRun ==
    /\ RunIdle
    /\ IndexIdle
    /\ PagesIdle

\* one process, one command after the other
Next ==
    \/ \E a \in CacheArgs : Invoke(1, a)
    \/ Step(1)

Spec == InitRun /\ [][Next]_vars

NextText ==
    \/ \E a \in TextArgs : Invoke(1, a)
    \/ Step(1)

SpecText == InitRun /\ [][NextText]_vars

\* two processes on the same cache directory, their steps interleaved
NextConc ==
    \E p \in Procs :
        \/ \E a \in ConcArgs : Invoke(p, a)
        \/ Step(p)

SpecConc == InitRun /\ [][NextConc]_vars

(***************************************************************************)
(* Properties                                                              *)
(***************************************************************************)
\* the lines already consumed that stored a record under key
LinesOf(key) ==
    {i \in 1..(pos - 1) :
        Parsed[txt[i]].branch \in {"comma", "range"} /\ Parsed[txt[i]].key = key}

\* C1: the page set stored for a key is exactly the union of the page sets of
\* all the lines parsed so far under that key, whatever their shapes
C1_UnionOfLines ==
    /\ \A i \in 1..(pos - 1) :
           Parsed[txt[i]].branch \in {"comma", "range"}
               => Parsed[txt[i]].key \in DOMAIN mapping
    /\ \A key \in DOMAIN mapping :
           Range(mapping[key]) = UNION {Range(Parsed[txt[i]].pages) : i \in LinesOf(key)}

\* the whole text is parsed, and one key came from a comma line and from a
\* range line with different page sets, which merged to {5, 6}
C1_Witness ==
    /\ pos > Len(txt)
    /\ \E i, j \in 1..Len(txt) :
           /\ Parsed[txt[i]].branch = "comma"
           /\ Parsed[txt[j]].branch = "range"
           /\ Parsed[txt[i]].key = Parsed[txt[j]].key
           /\ Range(Parsed[txt[i]].pages) = {5}
           /\ Range(Parsed[txt[j]].pages) = {5, 6}
           /\ Parsed[txt[i]].key \in DOMAIN mapping
           /\ Range(mapping[Parsed[txt[i]].key]) = {5, 6}

\* C2: every entry of the mapping has a non-empty page set (a range N-M with
\* M < N is rejected)
C2_PagesNonEmpty == \A key \in DOMAIN mapping : mapping[key] # <<>>
\* the content pages an entry points at: p and p + 1 for every indexed page p
\* (or start - 1 .. end - 1), as a set
Candidates(m) ==
    IF "pages" \in DOMAIN m
    THEN UNION {{m.pages[i], m.pages[i] + 1} : i \in DOMAIN m.pages}
    ELSE {p \in (m.start - 1)..(m.end - 1) : TRUE}

\* C3: the pages fetched are strictly ascending (sorted, no duplicates) and lie
\* in [0, document length); out-of-bounds candidates are left out without an
\* error, so at the end exactly the in-bounds candidates were fetched
C3_FetchedSortedInBounds ==
    /\ \A i \in DOMAIN chunks : 0 <= chunks[i] /\ chunks[i] < docLen
    /\ \A i, j \in DOMAIN chunks : i < j => chunks[i] < chunks[j]
    /\ rpc # "exit1" \/ ~manual
    /\ rpc = "done" => Range(chunks) = {p \in Candidates(meta) : 0 <= p /\ p < docLen}

\* a finished call on a "pages" entry that left out an out-of-bounds candidate
\* and still fetched two pages
C3_Witness ==
    /\ rpc = "done"
    /\ "pages" \in DOMAIN meta
    /\ Len(meta.pages) = 2
    /\ Len(chunks) = 2
    /\ \E p \in Candidates(meta) : p < 0
    /\ \E p \in Candidates(meta) : p >= docLen

\* the entry whose only indexed page is 10, read to the end from a document
\* long enough to hold every candidate page
Page10Done ==
    /\ rpc = "done"
    /\ meta = [pages |-> <<10>>]
    /\ docLen >= 12

\* C4 as stated: indexed page 10 resolves to the content pages {9, 10}
C4_Page10Gives9And10 == Page10Done => chunks = <<9, 10>>

\* C4 amended: indexed page 10 resolves to the zero-based content pages {10, 11}
C4_Page10Gives10And11 == Page10Done => chunks = <<10, 11>>

C4_Witness == Page10Done /\ docLen = 12
\* the storage location of a stored (cmd, query, model, text)
LocationOf(s) == cache_key(s[1], s[2], s[3])

\* the run of p found its entry in the cache and printed it
HitDone(p) == proc[p].pc = "done" /\ proc[p].command = "make" /\ "read_text" \in Range(proc[p].trace)

\* C5: what was stored under (cmd, query, model) is what a lookup with the same
\* three fields returns, and a lookup finds an entry only if its own three
\* fields were stored: two triples share a location only if they are equal
C5_RoundTrip ==
    /\ \A s \in stored : LocationOf(s) \in DOMAIN cache /\ cache[LocationOf(s)] = s[4]
    /\ \A p \in Procs :
           HitDone(p) =>
               <<proc[p].cmd, proc[p].query, proc[p].model, proc[p].out>> \in stored

\* C6: when clear_cache has completed the cache directory exists and is empty,
\* so no location it removed holds an entry; an entry is there only for a
\* triple stored since, or for a write in progress
C6_ClearedCacheEmpty ==
    /\ \A p \in Procs :
           proc[p].command = "clear_cache" /\ proc[p].pc = "done" =>
               /\ cacheDir
               /\ cache = EmptyCache
               /\ \A k \in proc[p].removed : k \notin DOMAIN cache
    /\ \A k \in DOMAIN cache :
           \/ \E s \in stored : LocationOf(s) = k
           \/ \E p \in Procs : proc[p].pc = "flush" /\ KeyOf(p) = k

\* clear_cache completed after removing two stored entries
C6_Witness ==
    \E p \in Procs :
        /\ proc[p].command = "clear_cache"
        /\ proc[p].pc = "done"
        /\ Cardinality(proc[p].removed) = 2

\* C7: the step out of the gate ends the run with exit code 2 exactly when the
\* match is absent or scores below min_score, before any lookup, read or
\* transformer call and with the cache as it was; otherwise the match is
\* accepted and the run goes on
C7_GateBeforeAnyWork ==
    [][\A p \in Procs :
          (proc[p].pc = "make" /\ proc'[p].pc \notin {"make", "exit1"}) =>
              /\ proc'[p].pc = "exit2" <=>
                     (proc'[p].cmd = "" \/ proc'[p].score < proc[p].min_score)
              /\ proc'[p].pc # "exit2" =>
                     /\ proc'[p].pc \in {"lookup", "read"}
                     /\ proc'[p].cmd \in DOMAIN proc'[p].index.idx
              /\ proc'[p].trace = <<>>
              /\ cache' = cache /\ stored' = stored]_vars

\* a run rejected for want of any key although 0 >= min_score, the cache
\* holding an entry; and a run accepted with score = min_score
C7_Witness ==
    \E p \in Procs :
        /\ proc[p].pc = "exit2"
        /\ proc[p].cmd = ""
        /\ proc[p].score >= proc[p].min_score
        /\ cache # EmptyCache

\* C8: a run that finds its entry prints it and ends having called neither
\* llm_client nor the transformer nor write; a run past the lookup has missed;
\* a run ended by the missing credential has missed and written nothing
C8_HitSkipsTransformer ==
    \A p \in Procs :
        /\ HitDone(p) =>
               /\ proc[p].trace = <<"exists", "read_text">>
               /\ KeyOf(p) \in DOMAIN cache
               /\ proc[p].out = cache[KeyOf(p)]
        /\ (proc[p].use_cache /\ proc[p].pc \in {"read", "truncate", "client", "call", "write"}) =>
               KeyOf(p) \notin DOMAIN cache
        /\ (proc[p].pc = "exit1" /\ proc[p].trace # <<>>
               /\ proc[p].trace[Len(proc[p].trace)] = "llm_client") =>
               /\ Range(proc[p].trace) \cap {"read_text", "transform", "write", "print"} = {}
               /\ proc[p].use_cache => KeyOf(p) \notin DOMAIN cache

\* a run that printed a cached result
C8_Witness ==
    \E p \in Procs :
        /\ HitDone(p)
        /\ proc[p].out \in Results
        /\ proc[p].result = ""

\* the run of p has truncated its text
Truncated(p) == proc[p].pc = "client"

\* C9 as stated: content longer than max_chars is cut to its first max_chars
\* characters plus the marker, of length max_chars + the marker's; shorter
\* content is passed unchanged
C9_TruncatedToBudget ==
    \A p \in Procs :
        Truncated(p) =>
            IF Len(proc[p].content) > proc[p].max_chars
            THEN /\ Len(proc[p].text) = proc[p].max_chars + Len(Marker)
                 /\ proc[p].text = SubSeq(proc[p].content, 1, proc[p].max_chars) \o Marker
            ELSE proc[p].text = proc[p].content

\* C9 amended: as stated when max_chars >= 0; a negative max_chars cuts the
\* last -max_chars characters off the content (all of it, if it has no more)
\* and appends the marker
C9_TruncatedBySlice ==
    \A p \in Procs :
        Truncated(p) =>
            LET c == proc[p].content
                n == proc[p].max_chars
            IN  IF Len(c) <= n THEN proc[p].text = c
                ELSE IF n >= 0
                THEN /\ Len(proc[p].text) = n + Len(Marker)
                     /\ proc[p].text = SubSeq(c, 1, n) \o Marker
                ELSE IF Len(c) + n > 0
                THEN proc[p].text = SubSeq(c, 1, Len(c) + n) \o Marker
                ELSE proc[p].text = Marker

\* a text of more than two characters cut to a budget of two
C9_Witness ==
    \E p \in Procs :
        /\ Truncated(p)
        /\ proc[p].max_chars = 2
        /\ Len(proc[p].content) > 2
        /\ Len(proc[p].text) = 2 + Len(Marker)

\* C10: under any interleaving a lookup returns the complete text of one of the
\* writers, and once no write is in progress every entry holds the complete
\* text written last
C10_LastWriterWins ==
    /\ \A p \in Procs : HitDone(p) => proc[p].out \in Results
    /\ (\A p \in Procs : proc[p].pc # "flush") =>
           \A k \in DOMAIN cache : cache[k] \in Results
====
